---------------------------- MODULE Spec2Model ----------------------------
(***************************************************************************)
(* A model of LLMTV's segment pipeline:                                    *)
(*   - utils/transcriber.py      map_to_video_segments (the segment mapper)*)
(*   - utils/video_generator.py  generate_all_videos and its worker jobs   *)
(*   - utils/video_stitcher.py   stitch_videos (the assembler)             *)
(*   - utils/cache_manager.py    the on-disk cache and the cached stages   *)
(*                                                                         *)
(* Times are whole numbers of ticks, TicksPerSecond ticks to the second,   *)
(* so that durations and timestamps that are not whole seconds occur.      *)
(* Python strings whose characters matter (lyrics, transcript texts) are   *)
(* sequences of one-character strings; messages and paths are strings.     *)
(***************************************************************************)
EXTENDS Integers, Sequences, FiniteSets, TLC

VARIABLES
    \* ---- map_to_video_segments ----
    transcription,      \* the dict transcribe_audio returned: [text, chunks]
    song_duration,      \* the song's duration, in ticks
    overlapping,        \* per window, the chunks appended to overlapping_lyrics
    video_segments,     \* the returned list of <<start, end, lyrics>>
    map_pc,             \* "call" before the call, "returned" after it
    \* ---- stitch_videos ----
    video_clips,        \* per path of video_paths, VideoFileClip(path).duration
    audio_duration,     \* AudioFileClip(audio_path).duration
    clips,              \* the retained clips' durations
    final_video,        \* the duration of the video written, None when none is
    stitch_pc,          \* "idle", "call", "returned" or "raised"
    \* ---- generate_all_videos ----
    gen_segments,       \* video_segments as passed in: the lyrics of each segment
    use_cache,          \* the use_cache argument
    max_workers,        \* the max_workers argument
    cache,              \* the cache directory: <<key, extension>> -> the file's content
    files,              \* the output files: path -> the file's content
    job,                \* per segment index, the future of its worker call
    submitted,          \* how many tasks executor.submit has been called for
    snapshot,           \* as_completed: the futures found finished at its call
    finished_futures,   \* as_completed: waiter.finished_futures, in completion order
    video_results,      \* the dict index -> path
    observed,           \* the indices as_completed has yielded, in order
    completion_order,   \* the indices of the finished jobs, in order of completion
    video_paths,        \* the list returned
    gen_error,          \* the message of the exception raised, NoneStr when none
    gen_pc,             \* "idle", "submit", "collect", "shutdown", "returned" or "raised"
    \* ---- the cached stages ----
    calls,              \* the calls of the cached stages made so far, in order
    \* ---- one call of generate_video_segment ----
    seg_index,          \* the segment_index argument
    seg_pc,             \* "idle", "start", "submit", "poll", "sleep", "backoff",
                        \* "download", "download_sleep", "returned" or "raised"
    attempt,            \* the loop variable of the generation loop
    retry_delay,        \* seconds the next backoff sleeps
    download_attempt,   \* the loop variable of the download loop
    op_done,            \* op.done of the operation last fetched
    elapsed,            \* seconds since poll_start = time.time() of this attempt
    completed_at,       \* elapsed at the fetch that first showed op.done, per attempt
    submits,            \* calls of client.models.generate_videos
    downloads,          \* calls of client.files.download
    backoffs,           \* the time.sleep(retry_delay) calls, in order
    download_sleeps,    \* the time.sleep(5) calls, in order
    fault,              \* the exception last raised inside the try block
    seg_result,         \* [path, error] the call ended with
    \* ---- the run of app.py from the mapper on ----
    app_pc,             \* "idle", "map", "generate", "generating", "stitch",
                        \* "stitching", "done" or "error"
    app_error,          \* the message st.error shows, NoneStr when none
    \* ---- calls of generate_all_videos running at the same time ----
    batch_segments,     \* per call, video_segments as passed in: the lyrics
    worker              \* per call and segment index, its generate_segment_worker

mapVars == <<transcription, song_duration, overlapping, video_segments, map_pc>>

stitchVars == <<video_clips, audio_duration, clips, final_video, stitch_pc>>

genVars == <<gen_segments, use_cache, max_workers, cache, files, job, submitted, snapshot,
             finished_futures, video_results, observed, completion_order,
             video_paths, gen_error, gen_pc>>

stageVars == <<calls>>

segVars == <<seg_index, seg_pc, attempt, retry_delay, download_attempt, op_done,
             elapsed, completed_at, submits, downloads, backoffs, download_sleeps,
             fault, seg_result>>

appVars == <<app_pc, app_error>>

poolVars == <<batch_segments, worker>>

vars == <<mapVars, stitchVars, genVars, stageVars, segVars, appVars, poolVars>>

-----------------------------------------------------------------------------
(* Bounds of the model *)

TicksPerSecond == 2
MaxSeconds == 20
MaxChunks == 2
MaxClips == 3
MaxSegments == 2
MaxWorkers == 2
MaxCalls == 3

(* Program constants *)

\* the width of a video segment, in seconds: the literal 8 of transcriber.py
SegmentSeconds == 8

\* Python's None where a time is expected; real times are >= 0
None == -1

\* Python's None where a string (a path, a message) is expected
NoneStr == "<None>"

\* max_retries, the initial retry_delay, download_retries and the sleep
\* between downloads of generate_video_segment
MaxRetries == 3
InitialRetryDelay == 5
DownloadRetries == 3
DownloadDelay == 5

Sec(n) == n * TicksPerSecond

-----------------------------------------------------------------------------
(* Python helpers *)

Min(a, b) == IF a < b THEN a ELSE b

\* math.ceil(a / b) for b > 0
Ceil(a, b) == -((-a) \div b)

\* the characters str.strip() removes
Whitespace == {" ", "\n", "\t", "\r"}

RECURSIVE LStrip(_)
LStrip(s) ==
    IF s # <<>> /\ Head(s) \in Whitespace THEN LStrip(Tail(s)) ELSE s

RECURSIVE RStrip(_)
RStrip(s) ==
    IF s # <<>> /\ s[Len(s)] \in Whitespace
    THEN RStrip(SubSeq(s, 1, Len(s) - 1))
    ELSE s

\* str.strip()
Strip(s) == RStrip(LStrip(s))

\* sep.join(parts)
RECURSIVE Join(_, _)
Join(sep, parts) ==
    IF parts = <<>> THEN <<>>
    ELSE IF Len(parts) = 1 THEN parts[1]
    ELSE parts[1] \o sep \o Join(sep, Tail(parts))

-----------------------------------------------------------------------------
(* utils/transcriber.py: map_to_video_segments *)

\* math.ceil(song_duration / 8), the length of range(num_segments)
NumSegmentsWhole(duration) ==
    LET n == duration \div Sec(SegmentSeconds) IN IF n > 0 THEN n ELSE 0
NumSegments(duration) ==
    LET n == Ceil(duration, Sec(SegmentSeconds)) IN IF n > 0 THEN n ELSE 0

\* segment_start = i * 8   (i counts from 0)
SegmentStart(i) == i * Sec(SegmentSeconds)

\* segment_end = min((i + 1) * 8, song_duration)
SegmentEndUnclamped(i, duration) == (i + 1) * Sec(SegmentSeconds)
SegmentEnd(i, duration) == Min((i + 1) * Sec(SegmentSeconds), duration)

\* chunk_start is None or chunk_end is None: the chunk is skipped
InvalidTimestamp(chunk) ==
    chunk.timestamp[1] = None \/ chunk.timestamp[2] = None

\* chunk_start < segment_end and chunk_end > segment_start
OverlapsClosed(chunk, segment_start, segment_end) ==
    /\ chunk.timestamp[1] <= segment_end
    /\ chunk.timestamp[2] >= segment_start
OverlapsWhereItStarts(chunk, segment_start, segment_end) ==
    /\ chunk.timestamp[1] < segment_end
    /\ chunk.timestamp[1] >= segment_start
Overlaps(chunk, segment_start, segment_end) ==
    /\ chunk.timestamp[1] < segment_end
    /\ chunk.timestamp[2] > segment_start

\* the inner loop over chunks, from position k on: the (1-based) positions of
\* the chunks whose text is appended to overlapping_lyrics, in that order
RECURSIVE OverlappingFrom(_, _, _, _)
OverlappingFrom(chunks, k, segment_start, segment_end) ==
    IF k > Len(chunks) THEN <<>>
    ELSE IF InvalidTimestamp(chunks[k])
         THEN OverlappingFrom(chunks, k + 1, segment_start, segment_end)
    ELSE IF Overlaps(chunks[k], segment_start, segment_end)
         THEN <<k>> \o OverlappingFrom(chunks, k + 1, segment_start, segment_end)
    ELSE OverlappingFrom(chunks, k + 1, segment_start, segment_end)

OverlappingChunks(chunks, segment_start, segment_end) ==
    OverlappingFrom(chunks, 1, segment_start, segment_end)

\* overlapping_lyrics: chunk["text"].strip() of each appended chunk
OverlappingLyricsRaw(chunks, idx) == [j \in 1..Len(idx) |-> chunks[idx[j]].text]
OverlappingLyrics(chunks, idx) ==
    [j \in 1..Len(idx) |-> Strip(chunks[idx[j]].text)]

\* " ".join(overlapping_lyrics) if overlapping_lyrics else transcription.get("text", "")
SegmentLyrics(trans, idx) ==
    IF idx # <<>> THEN Join(<<" ">>, OverlappingLyrics(trans.chunks, idx))
    ELSE trans.text

\* the branch taken when the chunk list is empty (`if not chunks`)
FallbackSegmentsStripped(trans, duration) ==
    [i \in 1..NumSegments(duration) |->
        <<SegmentStart(i - 1), SegmentEnd(i - 1, duration), Strip(trans.text)>>]
FallbackSegments(trans, duration) ==
    [i \in 1..NumSegments(duration) |->
        <<SegmentStart(i - 1), SegmentEnd(i - 1, duration), trans.text>>]

\* the branch taken when there are chunks: one tuple per window
MatchedSegments(trans, duration) ==
    [i \in 1..NumSegments(duration) |->
        <<SegmentStart(i - 1), SegmentEnd(i - 1, duration),
          SegmentLyrics(trans,
              OverlappingChunks(trans.chunks, SegmentStart(i - 1),
                                SegmentEnd(i - 1, duration)))>>]

map_to_video_segments(trans, duration) ==
    IF trans.chunks = <<>> THEN FallbackSegments(trans, duration)
    ELSE MatchedSegments(trans, duration)

\* overlapping_lyrics of each window, as chunk positions (no window is
\* matched against chunks when the chunk list is empty)
OverlappingPerWindow(trans, duration) ==
    IF trans.chunks = <<>> THEN <<>>
    ELSE [i \in 1..NumSegments(duration) |->
            OverlappingChunks(trans.chunks, SegmentStart(i - 1),
                              SegmentEnd(i - 1, duration))]

-----------------------------------------------------------------------------
(* Inputs of the mapper *)

\* timestamps a transcription chunk may carry: absent or half absent, inside
\* one window, touching a window boundary from either side by a tick or a
\* second, spanning a boundary, empty, and past the end of the song
ChunkTimestamps ==
    { <<None, None>>, <<Sec(2), None>>, <<None, Sec(3)>>, <<0, Sec(8)>>,
      <<Sec(2), Sec(3)>>, <<Sec(8), Sec(9)>>, <<Sec(8) - 1, Sec(8)>>,
      <<Sec(7), Sec(9)>>, <<Sec(3), Sec(3)>>, <<Sec(16), Sec(30)>> }

ChunkTexts == { <<"l", "a">>, <<" ", "o", " ", "h", "\n">> }

FullTexts == { <<>>, <<" ", "l", "a", " ", "o", "h", "\n">> }

Chunks == [text : ChunkTexts, timestamp : ChunkTimestamps]

ChunkLists == UNION { [1..n -> Chunks] : n \in 0..MaxChunks }

Durations == (-1)..Sec(MaxSeconds)

\* generate_all_videos has not been called
GenIdle ==
    /\ gen_segments = <<>>
    /\ use_cache = TRUE
    /\ max_workers = 1
    /\ cache = <<>>
    /\ files = <<>>
    /\ job = <<>>
    /\ submitted = 0
    /\ snapshot = {}
    /\ finished_futures = <<>>
    /\ video_results = <<>>
    /\ observed = <<>>
    /\ completion_order = <<>>
    /\ video_paths = <<>>
    /\ gen_error = NoneStr
    /\ gen_pc = "idle"

\* no cached stage has been called
StagesIdle == calls = <<>>

\* no two calls of generate_all_videos run side by side
PoolIdle ==
    /\ batch_segments = <<>>
    /\ worker = <<>>

\* no exception: the value of `fault` before any is raised
NoFault == [kind |-> "none", msg |-> ""]

\* generate_video_segment has not been called on its own
SegIdle ==
    /\ seg_index = 0
    /\ seg_pc = "idle"
    /\ attempt = 0
    /\ retry_delay = 0
    /\ download_attempt = 0
    /\ op_done = FALSE
    /\ elapsed = 0
    /\ completed_at = <<>>
    /\ submits = 0
    /\ downloads = 0
    /\ backoffs = <<>>
    /\ download_sleeps = <<>>
    /\ fault = NoFault
    /\ seg_result = [path |-> NoneStr, error |-> NoneStr]

\* the app has not been run
AppIdle ==
    /\ app_pc = "idle"
    /\ app_error = NoneStr

\* the assembler has not been called
StitchIdle ==
    /\ video_clips = <<>>
    /\ audio_duration = None
    /\ clips = <<>>
    /\ final_video = None
    /\ stitch_pc = "idle"

MapInit ==
    /\ transcription \in [text : FullTexts, chunks : ChunkLists]
    /\ song_duration \in Durations
    /\ overlapping = <<>>
    /\ video_segments = <<>>
    /\ map_pc = "call"
    /\ StitchIdle
    /\ GenIdle
    /\ StagesIdle
    /\ PoolIdle
    /\ SegIdle
    /\ AppIdle

\* video_segments = map_to_video_segments(transcription, song_duration)
MapToVideoSegments ==
    /\ map_pc = "call"
    /\ video_segments' = map_to_video_segments(transcription, song_duration)
    /\ overlapping' = OverlappingPerWindow(transcription, song_duration)
    /\ map_pc' = "returned"
    /\ UNCHANGED <<transcription, song_duration>>
    /\ UNCHANGED <<stitchVars, genVars, stageVars, poolVars, segVars, appVars>>

MapNext == MapToVideoSegments

SpecMap == MapInit /\ [][MapNext]_vars

-----------------------------------------------------------------------------
(* Properties of the mapper *)

\* the members of a finite set of integers, ascending
RECURSIVE Ascending(_)
Ascending(S) ==
    IF S = {} THEN <<>>
    ELSE LET m == CHOOSE x \in S : \A y \in S : x <= y
         IN <<m>> \o Ascending(S \ {m})

InSeq(x, seq) == \E j \in 1..Len(seq) : seq[j] = x

\* C1: for every song duration > 0, map_to_video_segments returns exactly
\* ceil(duration / 8) segments (the least n with 8 * n >= duration); segment i
\* starts at 8 * i, every segment has start < end, every segment's end is the
\* next segment's start, and the last segment ends at the song's duration.
C1_Windows ==
    (map_pc = "returned" /\ song_duration > 0) =>
        LET n == Len(video_segments) IN
        /\ n * Sec(SegmentSeconds) >= song_duration
        /\ (n - 1) * Sec(SegmentSeconds) < song_duration
        /\ \A i \in 1..n :
            /\ video_segments[i][1] = Sec(SegmentSeconds) * (i - 1)
            /\ video_segments[i][1] < video_segments[i][2]
            /\ i < n => video_segments[i][2] = video_segments[i + 1][1]
        /\ video_segments[n][2] = song_duration

\* a song of 19.5 s with chunks has been mapped to 3 windows
C1_Witness ==
    /\ map_pc = "returned"
    /\ song_duration = Sec(20) - 1
    /\ transcription.chunks # <<>>
    /\ Len(video_segments) = 3

\* C2: a chunk with range [cs, ce) is appended to a window's overlapping
\* lyrics if and only if cs < we and ce > ws for that window [ws, we); a chunk
\* that only touches the window at a boundary is not appended.
C2_OverlapIff ==
    (map_pc = "returned" /\ transcription.chunks # <<>>) =>
        \A i \in 1..Len(video_segments) :
            \A k \in 1..Len(transcription.chunks) :
                LET cs == transcription.chunks[k].timestamp[1]
                    ce == transcription.chunks[k].timestamp[2]
                    ws == video_segments[i][1]
                    we == video_segments[i][2]
                IN (cs # None /\ ce # None) =>
                    /\ InSeq(k, overlapping[i]) <=> (cs < we /\ ce > ws)
                    /\ (ce = ws \/ cs = we) => ~InSeq(k, overlapping[i])

\* the chunk [8, 9) went to the window [8, 16) and not to [0, 8)
C2_Witness ==
    /\ map_pc = "returned"
    /\ Len(video_segments) >= 2
    /\ video_segments[2][2] = Sec(16)
    /\ \E k \in 1..Len(transcription.chunks) :
        /\ transcription.chunks[k].timestamp = <<Sec(8), Sec(9)>>
        /\ InSeq(k, overlapping[2])
        /\ ~InSeq(k, overlapping[1])

\* C3: with a non-empty chunk list, each segment's text is the trimmed texts
\* of exactly the chunks overlapping its window, joined by single spaces in
\* the chunks' original order; a chunk with a null start or end is never
\* included; a window no chunk overlaps carries the full transcript text.
C3_SegmentText ==
    (map_pc = "returned" /\ transcription.chunks # <<>>) =>
        \A i \in 1..Len(video_segments) :
            LET ws == video_segments[i][1]
                we == video_segments[i][2]
                hits == { k \in 1..Len(transcription.chunks) :
                            /\ transcription.chunks[k].timestamp[1] # None
                            /\ transcription.chunks[k].timestamp[2] # None
                            /\ transcription.chunks[k].timestamp[1] < we
                            /\ transcription.chunks[k].timestamp[2] > ws }
                order == Ascending(hits)
            IN /\ overlapping[i] = order
               /\ hits # {} =>
                    video_segments[i][3] =
                        Join(<<" ">>, [j \in 1..Len(order) |->
                                Strip(transcription.chunks[order[j]].text)])
               /\ hits = {} => video_segments[i][3] = transcription.text

\* a window took two chunks, the second of them with surrounding whitespace,
\* while a chunk without timestamps would be impossible there; and another
\* window of the same call fell back to the full text
C3_Witness ==
    /\ map_pc = "returned"
    /\ Len(transcription.chunks) = 2
    /\ Len(video_segments) = 3
    /\ overlapping[1] = <<1, 2>>
    /\ transcription.chunks[1].text # transcription.chunks[2].text
    /\ video_segments[1][3] = <<"o", " ", "h", " ", "l", "a">>
    /\ overlapping[3] = <<>>
    /\ video_segments[3][3] = transcription.text
    /\ transcription.text # <<>>

\* C4: with an empty chunk list the call returns the same windows (count,
\* starts, ends) as with any non-empty chunk list and the same duration, and
\* every segment carries the full transcript text unchanged; a duration of
\* 20 s gives [0, 8), [8, 16), [16, 20).
C4_EmptyChunks ==
    (map_pc = "returned" /\ transcription.chunks = <<>>) =>
        /\ \A c \in Chunks :
            LET other == map_to_video_segments(
                            [text |-> transcription.text, chunks |-> <<c>>],
                            song_duration)
            IN /\ Len(video_segments) = Len(other)
               /\ \A i \in 1..Len(other) :
                    /\ video_segments[i][1] = other[i][1]
                    /\ video_segments[i][2] = other[i][2]
        /\ \A i \in 1..Len(video_segments) :
            video_segments[i][3] = transcription.text
        /\ song_duration = Sec(20) =>
            /\ Len(video_segments) = 3
            /\ \A i \in 1..3 :
                /\ video_segments[i][1] = Sec(8 * (i - 1))
                /\ video_segments[i][2] = IF i < 3 THEN Sec(8 * i) ELSE Sec(20)

\* a song of 20 s without chunks has been mapped, its text kept as it was
C4_Witness ==
    /\ map_pc = "returned"
    /\ transcription.chunks = <<>>
    /\ song_duration = Sec(20)
    /\ Len(video_segments) = 3
    /\ video_segments[3] = <<Sec(16), Sec(20), transcription.text>>
    /\ transcription.text # Strip(transcription.text)

\* `part` occurs in `text` as a run of consecutive characters
Contains(text, part) ==
    \E j \in 0..(Len(text) - Len(part)) : SubSeq(text, j + 1, j + Len(part)) = part

\* chunk k was appended for window i and its trimmed text is in the text of
\* segment i
AppearsIn(k, i) ==
    /\ InSeq(k, overlapping[i])
    /\ Contains(video_segments[i][3], Strip(transcription.chunks[k].text))

\* C26: every chunk with non-null timestamps and cs < ce whose range meets
\* [0, duration) appears in the text of at least one segment, and it appears
\* in the text of every window [8i, min(8(i+1), duration)) it overlaps: the
\* text of a chunk across a window boundary is repeated, not split.
C26_ChunksCovered ==
    map_pc = "returned" =>
        \A k \in 1..Len(transcription.chunks) :
            LET cs == transcription.chunks[k].timestamp[1]
                ce == transcription.chunks[k].timestamp[2]
            IN (cs # None /\ ce # None /\ cs < ce /\ cs < song_duration /\ ce > 0) =>
                /\ \E i \in 1..Len(video_segments) : AppearsIn(k, i)
                /\ \A i \in 1..Ceil(song_duration, Sec(SegmentSeconds)) :
                    LET ws == Sec(SegmentSeconds) * (i - 1)
                        we == Min(Sec(SegmentSeconds) * i, song_duration)
                    IN (cs < we /\ ce > ws) =>
                        /\ i <= Len(video_segments)
                        /\ AppearsIn(k, i)

\* the chunk [7, 9) is in the text of the windows [0, 8) and [8, 16), whole
\* in both, and the chunk [16, 30) is in the text of the last window
\* [16, 19.5) of the song
C26_Witness ==
    /\ map_pc = "returned"
    /\ song_duration = Sec(20) - 1
    /\ Len(transcription.chunks) = 2
    /\ transcription.chunks[1] =
            [text |-> <<" ", "o", " ", "h", "\n">>, timestamp |-> <<Sec(7), Sec(9)>>]
    /\ transcription.chunks[2] =
            [text |-> <<"l", "a">>, timestamp |-> <<Sec(16), Sec(30)>>]
    /\ video_segments[1][3] = <<"o", " ", "h">>
    /\ video_segments[2][3] = <<"o", " ", "h">>
    /\ video_segments[3][3] = <<"l", "a">>

-----------------------------------------------------------------------------
(* utils/video_stitcher.py: stitch_videos *)

\* sum(durations)
RECURSIVE Sum(_)
Sum(seq) == IF seq = <<>> THEN 0 ELSE Head(seq) + Sum(Tail(seq))

\* the duration of the clip that is appended: clip.subclip(0, remaining_duration)
\* if clip.duration > remaining_duration, else the clip as it is
RetainedWhole(clip_duration, remaining_duration) == clip_duration
Retained(clip_duration, remaining_duration) ==
    IF clip_duration > remaining_duration THEN remaining_duration
    ELSE clip_duration

\* the loop over video_paths from position k on, with the clips retained so
\* far; total_video_duration is the sum of their durations
RECURSIVE RetainClips(_, _, _, _)
RetainClips(durations, k, target, kept) ==
    IF k > Len(durations) THEN kept
    ELSE LET remaining_duration == target - Sum(kept) IN
         IF remaining_duration <= 0 THEN kept
         ELSE RetainClips(durations, k + 1, target,
                  Append(kept, Retained(durations[k], remaining_duration)))

\* final_video.duration after set_audio and the trim to the audio's duration
FinalDurationUntrimmed(kept, audio) == Sum(kept)
FinalDuration(kept, audio) ==
    IF Sum(kept) > audio THEN audio ELSE Sum(kept)

\* the mapper has not been called
MapIdle ==
    /\ transcription = [text |-> <<>>, chunks |-> <<>>]
    /\ overlapping = <<>>
    /\ video_segments = <<>>
    /\ map_pc = "idle"

\* durations a generated clip may have: a single tick, and 2, 5 and 8 seconds
ClipDurations == { 1, Sec(2), Sec(5), Sec(SegmentSeconds) }

ClipLists == UNION { [1..n -> ClipDurations] : n \in 0..MaxClips }

\* the audio track lasts as long as song_duration says, or a tick or a second
\* less, or a tick more
AudioOffsets == { -Sec(1), -1, 0, 1 }

StitchInit ==
    /\ MapIdle
    /\ song_duration \in 0..Sec(MaxSeconds)
    /\ video_clips \in ClipLists
    /\ \E d \in AudioOffsets :
        /\ song_duration + d > 0
        /\ audio_duration = song_duration + d
    /\ clips = <<>>
    /\ final_video = None
    /\ stitch_pc = "call"
    /\ GenIdle
    /\ StagesIdle
    /\ PoolIdle
    /\ SegIdle
    /\ AppIdle

\* stitch_videos(video_paths, audio_path, song_duration, output_path):
\* concatenate_videoclips raises on an empty list of clips, and every
\* exception is raised again as "Failed to stitch videos"
StitchVideos ==
    /\ stitch_pc = "call"
    /\ LET kept == RetainClips(video_clips, 1, song_duration, <<>>) IN
        /\ clips' = kept
        /\ IF kept = <<>>
           THEN /\ final_video' = None
                /\ stitch_pc' = "raised"
           ELSE /\ final_video' = FinalDuration(kept, audio_duration)
                /\ stitch_pc' = "returned"
    /\ UNCHANGED <<video_clips, audio_duration>>
    /\ UNCHANGED <<mapVars, genVars, stageVars, poolVars, segVars, appVars>>

StitchNext == StitchVideos

SpecStitch == StitchInit /\ [][StitchNext]_vars

-----------------------------------------------------------------------------
(* Properties of the assembler *)

\* the first m elements of a sequence
Prefix(seq, m) == SubSeq(seq, 1, m)

\* C7 (as claimed): when the clip durations sum to less than the target song
\* duration, stitch_videos fails and writes no output video.
C7_ShortFails ==
    (stitch_pc \in {"returned", "raised"} /\ Sum(video_clips) < song_duration) =>
        /\ stitch_pc = "raised"
        /\ final_video = None

\* C8: when the clip durations sum to at least the target, the retained clips
\* are the shortest prefix whose total reaches the target, every retained clip
\* whole except the last, which is cut to the remaining duration; nothing
\* after it is retained and the retained durations sum to exactly the target;
\* clips [5, 5, 5] with target 12 give [5, 5, 2].
C8_RetainedPrefix ==
    (stitch_pc \in {"returned", "raised"} /\ Sum(video_clips) >= song_duration) =>
        LET n == Len(clips) IN
        /\ n <= Len(video_clips)
        /\ Sum(Prefix(video_clips, n)) >= song_duration
        /\ \A m \in 0..(n - 1) : Sum(Prefix(video_clips, m)) < song_duration
        /\ \A j \in 1..(n - 1) : clips[j] = video_clips[j]
        /\ n > 0 => clips[n] = song_duration - Sum(Prefix(video_clips, n - 1))
        /\ Sum(clips) = song_duration
        /\ (video_clips = <<Sec(5), Sec(5), Sec(5)>> /\ song_duration = Sec(12))
            => clips = <<Sec(5), Sec(5), Sec(2)>>

\* clips of 5, 5 and 5 seconds were assembled for a song of 12 seconds
C8_Witness ==
    /\ stitch_pc = "returned"
    /\ video_clips = <<Sec(5), Sec(5), Sec(5)>>
    /\ song_duration = Sec(12)
    /\ clips = <<Sec(5), Sec(5), Sec(2)>>

\* C13: the video stitch_videos writes never lasts longer than the audio
\* track: a concatenation longer than the audio is trimmed to exactly the
\* audio's duration, and a concatenation that is not longer is written as
\* it is.
C13_ClampedToAudio ==
    stitch_pc = "returned" =>
        /\ final_video <= audio_duration
        /\ Sum(clips) > audio_duration => final_video = audio_duration
        /\ Sum(clips) <= audio_duration => final_video = Sum(clips)

\* the retained clips lasted longer than the audio and the video was trimmed
C13_Witness ==
    /\ stitch_pc = "returned"
    /\ Sum(clips) > audio_duration
    /\ final_video = audio_duration

-----------------------------------------------------------------------------
(* utils/video_generator.py: generate_video_segment *)

Digit(d) ==
    CASE d = 0 -> "0" [] d = 1 -> "1" [] d = 2 -> "2" [] d = 3 -> "3"
      [] d = 4 -> "4" [] d = 5 -> "5" [] d = 6 -> "6" [] d = 7 -> "7"
      [] d = 8 -> "8" [] d = 9 -> "9"

\* str(n) for n >= 0
RECURSIVE Str(_)
Str(n) == IF n < 10 THEN Digit(n) ELSE Str(n \div 10) \o Digit(n % 10)

\* f"{n:03d}" for n >= 0
Pad3(n) == IF n < 10 THEN "00" \o Str(n)
           ELSE IF n < 100 THEN "0" \o Str(n)
           ELSE Str(n)

\* bool(s) of a string or None
Truthy(s) == s # NoneStr /\ s # ""

\* output_path = f"{output_dir}/segment_{segment_index:03d}.mp4"
OutputPath(output_dir, segment_index) ==
    output_dir \o "/segment_" \o Pad3(segment_index) \o ".mp4"

\* veo3_prompt
Veo3Prompt(genre, lyrics_prompt) ==
    IF Truthy(genre)
    THEN "create a short music video with this genre: " \o genre
         \o " visualizing these lyrics: " \o lyrics_prompt
    ELSE "create a short music video visualizing these lyrics: " \o lyrics_prompt

\* get_cache_key("video", veo3_prompt, segment_index): the MD5 digest of the
\* JSON text of the arguments, which stands for the arguments themselves
VideoCacheKeyPromptOnly(veo3_prompt, segment_index) == <<"video", veo3_prompt>>
VideoCacheKey(veo3_prompt, segment_index) == <<"video", veo3_prompt, segment_index>>

\* cache_file = CACHE_DIR / f"{cache_key}.{extension}"
CacheFile(cache_key, extension) == <<cache_key, extension>>

\* cache_file.exists()
Exists(store, cache_file) == cache_file \in DOMAIN store

\* the exception classes of `except (TimeoutError, requests.exceptions.Timeout, OSError)`
Transient == {"TimeoutError", "OSError"}

\* the message generate_video_segment gives the exception it raises in place
\* of an AttributeError
UpdateMessage ==
    "The google-genai package needs to be updated. "
    \o "Please run: pip install --upgrade google-genai>=1.3.0"

\* the retry loop around submit and poll, from attempt `next_attempt` on, its
\* retry_delay being `delay`.  outcomes[a + 1]
\* is what attempt a ends with: "done" (the operation completed), or the class
\* and message of the exception it raised.  slept lists the time.sleep calls.
RECURSIVE GenerationLoop(_, _, _, _)
GenerationLoop(outcomes, next_attempt, delay, slept) ==
    LET o == outcomes[next_attempt + 1] IN
    IF o.kind = "done"
    THEN [raised |-> FALSE, error |-> NoneStr, submits |-> next_attempt + 1,
          slept |-> slept]
    ELSE IF o.kind = "AttributeError"
    THEN [raised |-> TRUE, error |-> UpdateMessage, submits |-> next_attempt + 1,
          slept |-> slept]
    ELSE IF o.kind \in Transient
    THEN IF next_attempt < MaxRetries - 1
         THEN GenerationLoop(outcomes, next_attempt + 1, delay * 2,
                             Append(slept, delay))
         ELSE [raised |-> TRUE,
               error |-> "Failed after " \o Str(MaxRetries) \o " attempts: " \o o.msg,
               submits |-> next_attempt + 1, slept |-> slept]
    ELSE [raised |-> TRUE, error |-> o.msg, submits |-> next_attempt + 1,
          slept |-> slept]

\* the last download attempt failed transiently:
\* raise Exception(f"Failed to download video after {download_retries} attempts: ...")
DownloadFallsThrough(o, tries, slept) ==
    [raised |-> FALSE, error |-> NoneStr, downloads |-> tries, slept |-> slept]
DownloadGivesUp(o, tries, slept) ==
    [raised |-> TRUE,
     error |-> "Failed to download video after " \o Str(DownloadRetries)
               \o " attempts: " \o o.msg,
     downloads |-> tries, slept |-> slept]

\* the retry loop around the download, from download_attempt `next_download` on
RECURSIVE DownloadLoop(_, _, _)
DownloadLoop(outcomes, next_download, slept) ==
    LET o == outcomes[next_download + 1] IN
    IF o.kind = "done"
    THEN [raised |-> FALSE, error |-> NoneStr,
          downloads |-> next_download + 1, slept |-> slept]
    ELSE IF o.kind \in Transient
    THEN IF next_download < DownloadRetries - 1
         THEN DownloadLoop(outcomes, next_download + 1,
                           Append(slept, DownloadDelay))
         ELSE DownloadGivesUp(o, next_download + 1, slept)
    ELSE [raised |-> TRUE, error |-> o.msg,
          downloads |-> next_download + 1, slept |-> slept]

\* raise Exception(f"Failed to generate video segment {segment_index}: {str(e)}")
SegmentErrorBare(segment_index, message) == message
SegmentError(segment_index, message) ==
    "Failed to generate video segment " \o Str(segment_index) \o ": " \o message

\* the try block of generate_video_segment (after a cache miss) against the
\* remote behaviour `script`: what it returns or raises, and what it did
RunSegment(output_dir, segment_index, caching, script) ==
    LET g == GenerationLoop(script.gen, 0, InitialRetryDelay, <<>>) IN
    IF g.raised
    THEN [path |-> NoneStr, error |-> SegmentError(segment_index, g.error),
          submits |-> g.submits, downloads |-> 0, slept |-> g.slept,
          saved |-> FALSE]
    ELSE LET d == DownloadLoop(script.dl, 0, g.slept) IN
         IF d.raised
         THEN [path |-> NoneStr, error |-> SegmentError(segment_index, d.error),
               submits |-> g.submits, downloads |-> d.downloads,
               slept |-> d.slept, saved |-> FALSE]
         ELSE [path |-> OutputPath(output_dir, segment_index), error |-> NoneStr,
               submits |-> g.submits, downloads |-> d.downloads,
               slept |-> d.slept, saved |-> caching]

-----------------------------------------------------------------------------
(* Remote behaviours *)

Done == [kind |-> "done", msg |-> ""]

\* what the attempts of one loop end with: some transient failures, then the
\* outcome that ends the loop (or one more transient failure, the last try)
LoopOutcomes(transient, final, tries) ==
    UNION { { pre \o <<f>> : pre \in [1..n -> transient], f \in final }
            : n \in 0..(tries - 1) }
    \cup [1..tries -> transient]

Succeeds(outcomes) == outcomes[Len(outcomes)].kind = "done"

\* the remote behaviours whose exceptions are of the classes `kinds` (beside
\* AttributeError and Exception) with the messages `msgs`; the download is
\* reached only when the generation completed
ScriptsOver(kinds, msgs) ==
    LET transient == [kind : kinds, msg : msgs]
        other == [kind : {"Exception"}, msg : msgs]
        attribute == {[kind |-> "AttributeError", msg |-> ""]}
        gens == LoopOutcomes(transient, {Done} \cup other \cup attribute, MaxRetries)
        dls == LoopOutcomes(transient, {Done} \cup other, DownloadRetries)
    IN { [gen |-> g, dl |-> <<>>] : g \in { x \in gens : ~Succeeds(x) } }
       \cup { [gen |-> g, dl |-> d] : g \in { x \in gens : Succeeds(x) }, d \in dls }

\* the remote behaviour makes every generation attempt, or every download
\* attempt, fail transiently
Exhausts(script) ==
    \/ /\ Len(script.gen) = 3
       /\ \A a \in 1..3 : script.gen[a].kind \in {"TimeoutError", "OSError"}
    \/ /\ Len(script.dl) = 3
       /\ \A a \in 1..3 : script.dl[a].kind \in {"TimeoutError", "OSError"}

\* the behaviours the jobs of a batch meet: every way a job can end, with
\* exceptions that carry no message
BatchScripts == ScriptsOver({"OSError"}, {""})

-----------------------------------------------------------------------------
(* utils/video_generator.py: generate_all_videos *)

\* the arguments the app passes
OutputDir == "videos"
Genre == "pop"

Lyrics == { "la" }

SegmentLists == UNION { [1..n -> Lyrics] : n \in 0..MaxSegments }

\* the media a remote generation for job i of this batch yields, and the
\* media an earlier run left in the cache
Media(segment_index) == <<"generated for segment", segment_index>>
EarlierMedia == <<"cached by an earlier run">>

\* caches an earlier run may have left: nothing, or the video of its segment 0
\* for the lyrics "la", or for other lyrics
InitialCaches ==
    { <<>> } \cup
    { (CacheFile(VideoCacheKey(Veo3Prompt(Genre, l), 0), "mp4") :> EarlierMedia)
      : l \in {"la", "oh"} }

\* str(e) of the OSError that Path.mkdir or shutil.copy raises before the try
OsErrorMessage == "[Errno 28] No space left on device"

NumJobs == Len(gen_segments)
JobIds == 0..(NumJobs - 1)

JobPrompt(i) == Veo3Prompt(Genre, gen_segments[i + 1])
JobKey(i) == VideoCacheKey(JobPrompt(i), i)
JobCacheFile(i) == CacheFile(JobKey(i), "mp4")

Running == { i \in JobIds : job[i].state = "running" }
Queued == { i \in JobIds : job[i].state = "queued" }
AllFinished == \A i \in JobIds : job[i].state = "finished"

GenInit ==
    /\ MapIdle
    /\ song_duration = 0
    /\ StitchIdle
    /\ StagesIdle
    /\ PoolIdle
    /\ SegIdle
    /\ AppIdle
    /\ gen_segments \in SegmentLists
    /\ use_cache \in BOOLEAN
    /\ max_workers \in 1..MaxWorkers
    /\ cache \in InitialCaches
    /\ files = <<>>
    /\ job = [i \in JobIds |-> [state |-> "new", path |-> NoneStr, error |-> NoneStr, exhausted |-> FALSE]]
    /\ submitted = 0
    /\ snapshot = {}
    /\ finished_futures = <<>>
    /\ video_results = <<>>
    /\ observed = <<>>
    /\ completion_order = <<>>
    /\ video_paths = <<>>
    /\ gen_error = NoneStr
    /\ gen_pc = "submit"

\* executor.submit(generate_segment_worker, (i, segment)), for i in order
Submit ==
    /\ gen_pc = "submit"
    /\ submitted < NumJobs
    /\ job' = [job EXCEPT ![submitted].state = "queued"]
    /\ submitted' = submitted + 1
    /\ UNCHANGED <<gen_segments, use_cache, max_workers, cache, files, snapshot,
                   finished_futures, video_results, observed, completion_order,
                   video_paths, gen_error, gen_pc>>
    /\ UNCHANGED <<mapVars, stitchVars, stageVars, poolVars, segVars, appVars>>

\* the future of job i is set to finished with the worker's return value
\* (index, video_path, error); as_completed's waiter, once installed, is told.
\* exhausted keeps whether the job used up the tries of one of its loops.
Finish(i, path, error, exhausted) ==
    /\ job' = [job EXCEPT ![i] = [state |-> "finished", path |-> path, error |-> error,
                                  exhausted |-> exhausted]]
    /\ completion_order' = Append(completion_order, i)
    /\ finished_futures' = IF gen_pc = "collect" THEN Append(finished_futures, i)
                           ELSE finished_futures

\* a pool thread takes the next work item of the queue: there are at most
\* max_workers threads and the queue is first in, first out
TakesUnbounded(i) ==
    /\ i \in Queued
    /\ \A j \in Queued : i <= j
Takes(i) ==
    /\ i \in Queued
    /\ \A j \in Queued : i <= j
    /\ Cardinality(Running) < max_workers

\* generate_segment_worker -> generate_video_segment up to the try block:
\* on a cache hit the cached file is copied to output_path, which is returned
JobBeginHit(i) ==
    /\ Takes(i)
    /\ use_cache /\ Exists(cache, JobCacheFile(i))
    /\ files' = (OutputPath(OutputDir, i) :> cache[JobCacheFile(i)]) @@ files
    /\ Finish(i, OutputPath(OutputDir, i), NoneStr, FALSE)
    /\ UNCHANGED <<gen_segments, use_cache, max_workers, cache, submitted, snapshot,
                   video_results, observed, video_paths, gen_error, gen_pc>>
    /\ UNCHANGED <<mapVars, stitchVars, stageVars, poolVars, segVars, appVars>>

\* ... on a miss, or without caching, the try block is entered
JobBeginMiss(i) ==
    /\ Takes(i)
    /\ ~(use_cache /\ Exists(cache, JobCacheFile(i)))
    /\ job' = [job EXCEPT ![i].state = "running"]
    /\ UNCHANGED <<gen_segments, use_cache, max_workers, cache, files, submitted, snapshot,
                   finished_futures, video_results, observed, completion_order,
                   video_paths, gen_error, gen_pc>>
    /\ UNCHANGED <<mapVars, stitchVars, stageVars, poolVars, segVars, appVars>>

\* ... and an OSError of Path.mkdir or shutil.copy is not inside the try
\* block: the worker returns (index, None, str(e))
JobBeginRaises(i) ==
    /\ Takes(i)
    /\ Finish(i, NoneStr, OsErrorMessage, FALSE)
    /\ UNCHANGED <<gen_segments, use_cache, max_workers, cache, files, submitted, snapshot,
                   video_results, observed, video_paths, gen_error, gen_pc>>
    /\ UNCHANGED <<mapVars, stitchVars, stageVars, poolVars, segVars, appVars>>

\* the try block of generate_video_segment and the return of the worker:
\* (index, video_path, None), or (index, None, str(e))
JobRun(i) ==
    /\ i \in Running
    /\ \E script \in BatchScripts :
        LET r == RunSegment(OutputDir, i, use_cache, script) IN
        /\ Finish(i, r.path, r.error, Exhausts(script))
        /\ files' = IF r.path # NoneStr THEN (r.path :> Media(i)) @@ files
                    ELSE files
        /\ cache' = IF r.saved THEN (JobCacheFile(i) :> Media(i)) @@ cache
                    ELSE cache
    /\ UNCHANGED <<gen_segments, use_cache, max_workers, submitted, snapshot,
                   video_results, observed, video_paths, gen_error, gen_pc>>
    /\ UNCHANGED <<mapVars, stitchVars, stageVars, poolVars, segVars, appVars>>

\* as_completed(futures) is called once every task is submitted: the futures
\* already finished are set aside to be yielded first, and a waiter is
\* installed on the others
AsCompleted ==
    /\ gen_pc = "submit"
    /\ submitted = NumJobs
    /\ snapshot' = { i \in JobIds : job[i].state = "finished" }
    /\ gen_pc' = "collect"
    /\ UNCHANGED <<gen_segments, use_cache, max_workers, cache, files, job, submitted,
                   finished_futures, video_results, observed, completion_order,
                   video_paths, gen_error>>
    /\ UNCHANGED <<mapVars, stitchVars, stageVars, poolVars, segVars, appVars>>

Range(seq) == { seq[k] : k \in 1..Len(seq) }

\* the future as_completed yields next: first those found finished at its
\* call, which it holds as a set, in any order; then the others in the order
\* they finish (each batch of waiter.finished_futures is reversed and popped
\* from its end)
YieldsUnreversed(i) ==
    IF snapshot \ Range(observed) # {} THEN i \in snapshot \ Range(observed)
    ELSE finished_futures # <<>> /\ i = finished_futures[Len(finished_futures)]
Yields(i) ==
    IF snapshot \ Range(observed) # {} THEN i \in snapshot \ Range(observed)
    ELSE finished_futures # <<>> /\ i = Head(finished_futures)

Yielded(i) ==
    /\ observed' = Append(observed, i)
    /\ finished_futures' =
        IF i \in snapshot THEN finished_futures
        ELSE SelectSeq(finished_futures, LAMBDA j : j # i)
    /\ UNCHANGED snapshot

\* raise Exception(f"Failed to generate segment {index}: {error}")
BatchError(index, error) ==
    "Failed to generate segment " \o Str(index) \o ": " \o error

\* the body of the loop for a result without error: video_results[index] = video_path
CollectPath(i) ==
    /\ gen_pc = "collect"
    /\ Yields(i)
    /\ ~Truthy(job[i].error)
    /\ Yielded(i)
    /\ video_results' = (i :> job[i].path) @@ video_results
    /\ UNCHANGED <<gen_segments, use_cache, max_workers, cache, files, job,
                   submitted, completion_order, video_paths, gen_error, gen_pc>>
    /\ UNCHANGED <<mapVars, stitchVars, stageVars, poolVars, segVars, appVars>>

\* the body of the loop for a result with an error: the exception is raised,
\* and leaving the `with` block waits for the executor's shutdown
CollectError(i) ==
    /\ gen_pc = "collect"
    /\ Yields(i)
    /\ Truthy(job[i].error)
    /\ Yielded(i)
    /\ gen_error' = BatchError(i, job[i].error)
    /\ gen_pc' = "shutdown"
    /\ UNCHANGED <<gen_segments, use_cache, max_workers, cache, files, job, submitted,
                   video_results, completion_order, video_paths>>
    /\ UNCHANGED <<mapVars, stitchVars, stageVars, poolVars, segVars, appVars>>

\* leaving `with ThreadPoolExecutor(...)` calls executor.shutdown(wait=True),
\* which cancels nothing and returns when every submitted task has run
ShutdownReturnsAtOnce == TRUE
ShutdownWaits == AllFinished

\* then the exception leaves generate_all_videos
Raise ==
    /\ gen_pc = "shutdown"
    /\ ShutdownWaits
    /\ gen_pc' = "raised"
    /\ UNCHANGED <<gen_segments, use_cache, max_workers, cache, files, job, submitted, snapshot,
                   finished_futures, video_results, observed, completion_order,
                   video_paths, gen_error>>
    /\ UNCHANGED <<mapVars, stitchVars, stageVars, poolVars, segVars, appVars>>

\* video_paths = [video_results[i] for i in range(len(video_segments))]
PathsAsCompleted(results, n) == [k \in 1..n |-> results[observed[k]]]
PathsInOrder(results, n) == [k \in 1..n |-> results[k - 1]]

\* every future has been yielded: the loop ends and the list is returned
Return ==
    /\ gen_pc = "collect"
    /\ Len(observed) = NumJobs
    /\ video_paths' = PathsInOrder(video_results, NumJobs)
    /\ gen_pc' = "returned"
    /\ UNCHANGED <<gen_segments, use_cache, max_workers, cache, files, job, submitted, snapshot,
                   finished_futures, video_results, observed, completion_order,
                   gen_error>>
    /\ UNCHANGED <<mapVars, stitchVars, stageVars, poolVars, segVars, appVars>>

GenNext ==
    \/ Submit
    \/ AsCompleted
    \/ \E i \in JobIds : JobBeginHit(i)
    \/ \E i \in JobIds : JobBeginMiss(i)
    \/ \E i \in JobIds : JobBeginRaises(i)
    \/ \E i \in JobIds : JobRun(i)
    \/ \E i \in JobIds : CollectPath(i)
    \/ \E i \in JobIds : CollectError(i)
    \/ Raise
    \/ Return

SpecGen == GenInit /\ [][GenNext]_vars

-----------------------------------------------------------------------------
(* utils/video_generator.py: one call of generate_video_segment, step by   *)
(* step.  Time is in seconds.                                               *)

\* max_poll_time = 600 and time.sleep(10)
MaxPollTime == 600
PollInterval == 10

\* seconds client.operations.get takes to answer
Latencies == { 0, 1 }

\* the exceptions the client library and the transport raise
Faults ==
    [kind : {"TimeoutError", "OSError", "Exception", "AttributeError"},
     msg : {"timed out"}]

\* raise TimeoutError(f"Video generation exceeded {max_poll_time}s timeout")
PollTimeout ==
    [kind |-> "TimeoutError",
     msg |-> "Video generation exceeded " \o Str(MaxPollTime) \o "s timeout"]

\* the lyrics of the segment
SegmentLyrics1 == "la"

SegPrompt == Veo3Prompt(Genre, SegmentLyrics1)
SegCacheFile == CacheFile(VideoCacheKey(SegPrompt, seg_index), "mp4")

SegInit ==
    /\ MapIdle
    /\ song_duration = 0
    /\ StitchIdle
    /\ StagesIdle
    /\ PoolIdle
    /\ AppIdle
    /\ gen_segments = <<>>
    /\ max_workers = 1
    /\ job = <<>>
    /\ submitted = 0
    /\ snapshot = {}
    /\ finished_futures = <<>>
    /\ video_results = <<>>
    /\ observed = <<>>
    /\ completion_order = <<>>
    /\ video_paths = <<>>
    /\ gen_error = NoneStr
    /\ gen_pc = "idle"
    /\ use_cache \in BOOLEAN
    /\ cache \in InitialCaches
    /\ files = <<>>
    /\ seg_index \in 0..(MaxSegments - 1)
    /\ seg_pc = "start"
    /\ attempt = 0
    /\ retry_delay = 0
    /\ download_attempt = 0
    /\ op_done = FALSE
    /\ elapsed = 0
    /\ completed_at = <<>>
    /\ submits = 0
    /\ downloads = 0
    /\ backoffs = <<>>
    /\ download_sleeps = <<>>
    /\ fault = NoFault
    /\ seg_result = [path |-> NoneStr, error |-> NoneStr]

SegOthersUnchanged ==
    /\ UNCHANGED <<gen_segments, use_cache, max_workers, job, submitted, snapshot,
                   finished_futures, video_results, observed, completion_order,
                   video_paths, gen_error, gen_pc, seg_index>>
    /\ UNCHANGED <<mapVars, stitchVars, stageVars, poolVars, appVars>>

\* the call ends with the exception of the outer handler
SegRaises(message) ==
    /\ seg_pc' = "raised"
    /\ seg_result' = [path |-> NoneStr, error |-> SegmentError(seg_index, message)]

\* the cache is looked up first: on a hit the cached file is copied to
\* output_path and output_path is returned
SegBeginHit ==
    /\ seg_pc = "start"
    /\ use_cache /\ Exists(cache, SegCacheFile)
    /\ files' = (OutputPath(OutputDir, seg_index) :> cache[SegCacheFile]) @@ files
    /\ seg_pc' = "returned"
    /\ seg_result' = [path |-> OutputPath(OutputDir, seg_index), error |-> NoneStr]
    /\ UNCHANGED <<cache, attempt, retry_delay, download_attempt, op_done, elapsed,
                   completed_at, submits, downloads, backoffs, download_sleeps, fault>>
    /\ SegOthersUnchanged

\* on a miss, or without caching: max_retries = 3, retry_delay = 5, and the
\* first pass of the generation loop begins
SegBeginMiss ==
    /\ seg_pc = "start"
    /\ ~(use_cache /\ Exists(cache, SegCacheFile))
    /\ seg_pc' = "submit"
    /\ attempt' = 0
    /\ retry_delay' = InitialRetryDelay
    /\ UNCHANGED <<cache, files, download_attempt, op_done, elapsed, completed_at,
                   submits, downloads, backoffs, download_sleeps, fault, seg_result>>
    /\ SegOthersUnchanged

\* an OSError of Path.mkdir or of shutil.copy is raised outside the try block
SegBeginRaises ==
    /\ seg_pc = "start"
    /\ seg_pc' = "raised"
    /\ seg_result' = [path |-> NoneStr, error |-> OsErrorMessage]
    /\ UNCHANGED <<cache, files, attempt, retry_delay, download_attempt, op_done,
                   elapsed, completed_at, submits, downloads, backoffs,
                   download_sleeps, fault>>
    /\ SegOthersUnchanged

\* the handlers of the generation loop for the exception f
GenerationRetriesAny(f) == attempt < MaxRetries - 1
GenerationRetriesUnbounded(f) == f.kind \in Transient
GenerationRetries(f) == f.kind \in Transient /\ attempt < MaxRetries - 1

GenerationExcept(f) ==
    /\ fault' = f
    /\ IF f.kind = "AttributeError"
       THEN SegRaises(UpdateMessage)
       ELSE IF GenerationRetries(f)
       THEN /\ seg_pc' = "backoff"
            /\ UNCHANGED seg_result
       ELSE IF f.kind \in Transient
       THEN SegRaises("Failed after " \o Str(MaxRetries) \o " attempts: " \o f.msg)
       ELSE SegRaises(f.msg)

\* op = client.models.generate_videos(...); poll_start = time.time()
SegSubmitReturns(done) ==
    /\ seg_pc = "submit"
    /\ submits' = submits + 1
    /\ op_done' = done
    /\ elapsed' = 0
    /\ completed_at' = IF done THEN Append(completed_at, 0) ELSE completed_at
    /\ seg_pc' = "poll"
    /\ UNCHANGED <<cache, files, attempt, retry_delay, download_attempt, downloads,
                   backoffs, download_sleeps, fault, seg_result>>
    /\ SegOthersUnchanged

\* client.models.generate_videos raises
SegSubmitRaises(f) ==
    /\ seg_pc = "submit"
    /\ submits' = submits + 1
    /\ GenerationExcept(f)
    /\ UNCHANGED <<cache, files, attempt, retry_delay, download_attempt, op_done,
                   elapsed, completed_at, downloads, backoffs, download_sleeps>>
    /\ SegOthersUnchanged

\* `while not op.done:` is left for the download loop
SegPollDone ==
    /\ seg_pc = "poll"
    /\ op_done
    /\ seg_pc' = "download"
    /\ download_attempt' = 0
    /\ UNCHANGED <<cache, files, attempt, retry_delay, op_done, elapsed, completed_at,
                   submits, downloads, backoffs, download_sleeps, fault, seg_result>>
    /\ SegOthersUnchanged

\* the budget test of the loop body
BudgetExceeded(t) == t > MaxPollTime

\* `elapsed = time.time() - poll_start` is within the budget: time.sleep(10)
SegPollWithinBudget ==
    /\ seg_pc = "poll"
    /\ ~op_done
    /\ ~BudgetExceeded(elapsed)
    /\ seg_pc' = "sleep"
    /\ UNCHANGED <<cache, files, attempt, retry_delay, download_attempt, op_done,
                   elapsed, completed_at, submits, downloads, backoffs,
                   download_sleeps, fault, seg_result>>
    /\ SegOthersUnchanged

\* ... or beyond it: TimeoutError
SegPollTimeout ==
    /\ seg_pc = "poll"
    /\ ~op_done
    /\ BudgetExceeded(elapsed)
    /\ GenerationExcept(PollTimeout)
    /\ UNCHANGED <<cache, files, attempt, retry_delay, download_attempt, op_done,
                   elapsed, completed_at, submits, downloads, backoffs,
                   download_sleeps>>
    /\ SegOthersUnchanged

\* time.sleep(10) is over and op = client.operations.get(op) answers
SegFetchReturns(latency, done) ==
    /\ seg_pc = "sleep"
    /\ elapsed' = elapsed + PollInterval + latency
    /\ op_done' = done
    /\ completed_at' = IF done THEN Append(completed_at, elapsed') ELSE completed_at
    /\ seg_pc' = "poll"
    /\ UNCHANGED <<cache, files, attempt, retry_delay, download_attempt, submits,
                   downloads, backoffs, download_sleeps, fault, seg_result>>
    /\ SegOthersUnchanged

\* ... or raises
SegFetchRaises(latency, f) ==
    /\ seg_pc = "sleep"
    /\ elapsed' = elapsed + PollInterval + latency
    /\ GenerationExcept(f)
    /\ UNCHANGED <<cache, files, attempt, retry_delay, download_attempt, op_done,
                   completed_at, submits, downloads, backoffs, download_sleeps>>
    /\ SegOthersUnchanged

\* time.sleep(retry_delay); retry_delay *= 2; the next pass of the loop
NextDelaySame(delay) == delay
NextDelay(delay) == delay * 2

SegBackoff ==
    /\ seg_pc = "backoff"
    /\ backoffs' = Append(backoffs, retry_delay)
    /\ retry_delay' = NextDelay(retry_delay)
    /\ attempt' = attempt + 1
    /\ seg_pc' = "submit"
    /\ UNCHANGED <<cache, files, download_attempt, op_done, elapsed, completed_at,
                   submits, downloads, download_sleeps, fault, seg_result>>
    /\ SegOthersUnchanged

\* client.files.download and base_video.video.save(output_path) succeed;
\* the file is saved to the cache when caching, and output_path is returned
SegDownloadReturns ==
    /\ seg_pc = "download"
    /\ downloads' = downloads + 1
    /\ files' = (OutputPath(OutputDir, seg_index) :> Media(seg_index)) @@ files
    /\ cache' = IF use_cache THEN (SegCacheFile :> Media(seg_index)) @@ cache
                ELSE cache
    /\ seg_pc' = "returned"
    /\ seg_result' = [path |-> OutputPath(OutputDir, seg_index), error |-> NoneStr]
    /\ UNCHANGED <<attempt, retry_delay, download_attempt, op_done, elapsed,
                   completed_at, submits, backoffs, download_sleeps, fault>>
    /\ SegOthersUnchanged

\* the content of a file that shutil.copy was writing when it failed
Partial(media) == <<"partial copy of", media>>

\* the download succeeds and, with caching, shutil.copy of save_file_to_cache
\* raises an OSError, which the outer handler raises again: before the cache
\* file is created, or while it is written (the file then stays, partial)
SegSaveRaises(created) ==
    /\ seg_pc = "download"
    /\ use_cache
    /\ downloads' = downloads + 1
    /\ files' = (OutputPath(OutputDir, seg_index) :> Media(seg_index)) @@ files
    /\ cache' = IF created THEN (SegCacheFile :> Partial(Media(seg_index))) @@ cache
                ELSE cache
    /\ fault' = [kind |-> "OSError", msg |-> OsErrorMessage]
    /\ SegRaises(OsErrorMessage)
    /\ UNCHANGED <<attempt, retry_delay, download_attempt, op_done, elapsed,
                   completed_at, submits, backoffs, download_sleeps>>
    /\ SegOthersUnchanged

\* the download raises
DownloadRetriesUnbounded(f) == f.kind \in Transient
DownloadRetries_(f) == f.kind \in Transient /\ download_attempt < DownloadRetries - 1

SegDownloadRaises(f) ==
    /\ seg_pc = "download"
    /\ downloads' = downloads + 1
    /\ fault' = f
    /\ IF DownloadRetries_(f)
       THEN /\ seg_pc' = "download_sleep"
            /\ UNCHANGED seg_result
       ELSE IF f.kind \in Transient
       THEN SegRaises("Failed to download video after " \o Str(DownloadRetries)
                      \o " attempts: " \o f.msg)
       ELSE SegRaises(f.msg)
    /\ UNCHANGED <<cache, files, attempt, retry_delay, download_attempt, op_done,
                   elapsed, completed_at, submits, backoffs, download_sleeps>>
    /\ SegOthersUnchanged

\* time.sleep(5); the next pass of the download loop
SegDownloadSleep ==
    /\ seg_pc = "download_sleep"
    /\ download_sleeps' = Append(download_sleeps, DownloadDelay)
    /\ download_attempt' = download_attempt + 1
    /\ seg_pc' = "download"
    /\ UNCHANGED <<cache, files, attempt, retry_delay, op_done, elapsed, completed_at,
                   submits, downloads, backoffs, fault, seg_result>>
    /\ SegOthersUnchanged

SegNext ==
    \/ SegBeginHit
    \/ SegBeginMiss
    \/ SegBeginRaises
    \/ \E done \in BOOLEAN : SegSubmitReturns(done)
    \/ \E f \in Faults : SegSubmitRaises(f)
    \/ SegPollDone
    \/ SegPollWithinBudget
    \/ SegPollTimeout
    \/ \E latency \in Latencies, done \in BOOLEAN : SegFetchReturns(latency, done)
    \/ \E latency \in Latencies, f \in Faults : SegFetchRaises(latency, f)
    \/ SegBackoff
    \/ SegDownloadReturns
    \/ \E created \in BOOLEAN : SegSaveRaises(created)
    \/ \E f \in Faults : SegDownloadRaises(f)
    \/ SegDownloadSleep

SpecSegment == SegInit /\ [][SegNext]_vars

-----------------------------------------------------------------------------
(* Properties of one call of generate_video_segment *)

\* an earlier run left in the cache the video of the rendered prompt `prompt`
\* and the segment index `index`
EarlierEntry(prompt, index) ==
    /\ <<<<"video", prompt, index>>, "mp4">> \in DOMAIN cache
    /\ cache[<<<<"video", prompt, index>>, "mp4">>] = EarlierMedia

\* C11: with caching, when the cache holds a video for the key of the
\* rendered prompt and the segment index, generate_video_segment submits no
\* generation job, polls nothing and downloads nothing, and what it returns
\* is the path of a copy of the cached video; an entry for another segment
\* index (or another prompt) does not short-circuit the call: a call that
\* returns without such an entry has submitted a job and downloaded its video.
C11_CacheShortCircuit ==
    /\ (use_cache /\ EarlierEntry(SegPrompt, seg_index)) =>
        /\ seg_pc \in {"start", "returned", "raised"}
        /\ submits = 0 /\ downloads = 0 /\ elapsed = 0 /\ completed_at = <<>>
        /\ backoffs = <<>> /\ download_sleeps = <<>>
        /\ seg_pc = "returned" =>
            /\ seg_result.path = OutputPath(OutputDir, seg_index)
            /\ files[seg_result.path] = EarlierMedia
    /\ (seg_pc = "returned" /\ ~(use_cache /\ EarlierEntry(SegPrompt, seg_index))) =>
        /\ submits >= 1 /\ downloads >= 1
        /\ files[seg_result.path] = Media(seg_index)

\* a call returned the cached video of its prompt and index
C11_Witness ==
    /\ seg_pc = "returned"
    /\ use_cache
    /\ EarlierEntry(SegPrompt, seg_index)
    /\ submits = 0

\* the generation loop gave up after its last attempt failed transiently
GenerationExhausted ==
    /\ seg_pc = "raised"
    /\ downloads = 0
    /\ submits = MaxRetries
    /\ fault.kind \in {"TimeoutError", "OSError"}

\* C16 (as claimed): the submit+poll sequence is tried at most 3 times and a
\* backoff follows each transient failure, the delays being 5s, 10s and 20s.
C16_ThreeBackoffs ==
    /\ submits <= 3
    /\ GenerationExhausted => backoffs = <<5, 10, 20>>

\* C16 (amended): the submit+poll sequence is tried at most 3 times; a
\* backoff follows the first and the second transient failure only, of 5s and
\* then 10s (doubling), and the third transient failure ends the loop without
\* a sleep.
C16_TwoBackoffs ==
    /\ submits <= 3
    /\ submits <= attempt + 1
    /\ Len(backoffs) = attempt
    /\ \A k \in 1..Len(backoffs) : backoffs[k] = <<5, 10>>[k]
    /\ GenerationExhausted => backoffs = <<5, 10>>

\* three attempts failed transiently
C16_Witness ==
    /\ GenerationExhausted
    /\ backoffs = <<5, 10>>

\* C17 (as claimed): an attempt is a timeout failure once its 600s budget is
\* exceeded: no attempt goes on to the download on a completion that was
\* first observed more than 600s after the polling of that attempt began.
C17_NoLateCompletion ==
    /\ \A k \in 1..Len(completed_at) : completed_at[k] <= 600
    /\ seg_pc \in {"download", "download_sleep", "returned"} => elapsed <= 600

\* what the call has done so far: its remote calls, its sleeps and the time
\* its polling took
SegActivity == <<submits, elapsed, downloads, backoffs, download_sleeps>>

\* C18: a non-transient error (an AttributeError, or an exception outside
\* TimeoutError, requests Timeout and OSError) raised while submitting,
\* polling or downloading ends the job with an error at once: the call has
\* raised, without a path, and from then on it submits, polls, downloads and
\* sleeps no more.
C18_NonTransientEndsJob ==
    /\ [](fault.kind \in {"Exception", "AttributeError"} =>
            /\ seg_pc = "raised"
            /\ seg_result.path = NoneStr
            /\ seg_result.error # NoneStr)
    /\ [][seg_pc = "raised" => (seg_pc' = "raised" /\ SegActivity' = SegActivity)]_vars

\* a poll raised a non-transient error after an earlier attempt had failed
\* transiently, and the job ended
C18_Witness ==
    /\ fault.kind = "Exception"
    /\ seg_pc = "raised"
    /\ submits = 2
    /\ elapsed > 0
    /\ backoffs = <<5>>

\* the call is in its download leg
Downloading == seg_pc \in {"download", "download_sleep"}

\* C20: the download leg starts only after a generation attempt reported
\* completion; the download is tried at most 3 times, with a sleep of 5s
\* between tries that does not grow; and a failed download never has a new
\* generation job submitted: from the download leg on nothing is submitted
\* or polled.
C20_DownloadLeg ==
    /\ []((Downloading \/ downloads >= 1) =>
            /\ op_done
            /\ completed_at # <<>>
            /\ completed_at[Len(completed_at)] = elapsed
            /\ submits >= 1)
    /\ [](/\ downloads <= 3
          /\ Len(download_sleeps) = download_attempt
          /\ Len(download_sleeps) <= 2
          /\ \A k \in 1..Len(download_sleeps) : download_sleeps[k] = 5)
    /\ [][(Downloading \/ downloads >= 1) =>
            /\ submits' = submits
            /\ elapsed' = elapsed
            /\ backoffs' = backoffs
            /\ seg_pc' \in {"download", "download_sleep", "returned", "raised"}]_vars

\* three downloads failed transiently after the first generation attempt
C20_Witness ==
    /\ seg_pc = "raised"
    /\ downloads = 3
    /\ download_sleeps = <<5, 5>>
    /\ submits = 1
    /\ fault.kind \in {"TimeoutError", "OSError"}

\* C21 (as claimed): with caching, whenever generate_video_segment returns
\* a path after a remote generation, the cache holds the entry of the job's
\* key, with the media the job downloaded; and a job that ends with an error
\* has written no cache entry: the cache holds what the earlier run left.
C21_SavedBeforeReturn ==
    /\ (use_cache /\ seg_pc = "returned" /\ submits >= 1) =>
        /\ Exists(cache, SegCacheFile)
        /\ cache[SegCacheFile] = Media(seg_index)
    /\ seg_pc = "raised" =>
        \A cache_file \in DOMAIN cache : cache[cache_file] = EarlierMedia

-----------------------------------------------------------------------------
(* utils/cache_manager.py and the cached stages: utils/llm_handler.py      *)
(* generate_lyrics, utils/music_generator.py generate_music,               *)
(* utils/transcriber.py transcribe_audio                                   *)

\* lyrics[:599]
LyricsLimit == 599
Truncate(text, limit) == IF Len(text) > limit THEN SubSeq(text, 1, limit) ELSE text

\* open(cache_file, "w").write(text) on POSIX: the text as it is
WriteText(text) == text

\* open(cache_file, "r").read(): universal newlines turn "\r\n" and "\r"
\* into "\n"
RECURSIVE ReadText(_)
ReadText(content) ==
    IF content = <<>> THEN <<>>
    ELSE IF Head(content) = "\r"
    THEN <<"\n">> \o ReadText(IF Len(content) > 1 /\ content[2] = "\n"
                              THEN Tail(Tail(content)) ELSE Tail(content))
    ELSE <<Head(content)>> \o ReadText(Tail(content))

\* json.dump(result, f) and json.load(f) of a dict of strings, lists, floats
\* and None: the file holds the JSON text of the value
JsonDump(value) == <<"json", value>>
JsonLoad(content) == content[2]

\* bool(x) of a string and of a dict
TruthyText(text) == text # <<>>
TruthyDict(d) == DOMAIN d # {}

\* get_cache_key(*args): the digest stands for the arguments
CacheKey(stage, args) == <<stage>> \o args

\* get_cached_result(cache_key, "text"): None is <<"None">> here
NoCachedText == <<"None">>
GetCachedText(store, cache_key) ==
    IF ~Exists(store, CacheFile(cache_key, "text")) THEN NoCachedText
    ELSE ReadText(store[CacheFile(cache_key, "text")])

\* `if cached:` for the value get_cached_result(cache_key, "text") returned
UsableText(cached) == cached # NoCachedText /\ TruthyText(cached)

\* the arguments of the calls
LyricsPrompts == { "cats", "dogs" }
Model == "openai/gpt-4o"
Style == "Catchy pop song with modern production, upbeat tempo, clear vocals"
SongLyrics == <<"l", "a">>
SongPath == "downloads/song.mp3"

\* response.choices[0].message.content of the completion, or an exception
LlmContents ==
    { <<"\n">>, <<" ", "l", "a", "\n">>, <<"o", "h">>, <<"l", "a", "\r", "\n", "o", "h">> }

\* the audio replicate returns for the lyrics: one of two takes
MusicOutputs ==
    { [audio |-> "take 1", duration |-> Sec(20)],
      [audio |-> "take 2", duration |-> Sec(12)] }

\* the dict replicate returns for the audio
TranscriptionOutputs ==
    { [text |-> <<>>, chunks |-> <<>>],
      [text |-> <<" ", "l", "a">>,
       chunks |-> <<[text |-> <<" ", "l", "a">>, timestamp |-> <<0, Sec(2)>>]>>] }

CallsLeft == Len(calls) < MaxCalls

\* a call of a stage as the history keeps it
Call(stage, args, caching, remote, ok, result) ==
    [stage |-> stage, args |-> args, use_cache |-> caching, remote |-> remote,
     ok |-> ok, result |-> result]

StageInit ==
    /\ MapIdle
    /\ song_duration = 0
    /\ StitchIdle
    /\ GenIdle
    /\ StagesIdle
    /\ PoolIdle
    /\ SegIdle
    /\ AppIdle

StageUnchanged ==
    /\ UNCHANGED <<gen_segments, use_cache, max_workers, job, submitted, snapshot,
                   finished_futures, video_results, observed, completion_order,
                   video_paths, gen_error, gen_pc>>
    /\ UNCHANGED <<mapVars, stitchVars, segVars, appVars, poolVars>>

\* generate_lyrics(prompt, model, use_cache) returning the cached lyrics
GenerateLyricsCached(prompt, caching) ==
    /\ CallsLeft
    /\ caching
    /\ LET cache_key == CacheKey("lyrics", <<prompt, Model>>)
           cached == GetCachedText(cache, cache_key)
       IN /\ UsableText(cached)
          /\ calls' = Append(calls, Call("lyrics", <<prompt, Model>>, caching,
                                         FALSE, TRUE, cached))
    /\ UNCHANGED <<cache, files>>
    /\ StageUnchanged

\* generate_lyrics calling the model, which answers with `content`
GenerateLyricsRemote(prompt, caching, content) ==
    /\ CallsLeft
    /\ LET cache_key == CacheKey("lyrics", <<prompt, Model>>)
           lyrics == Truncate(Strip(content), LyricsLimit)
       IN /\ ~(caching /\ UsableText(GetCachedText(cache, cache_key)))
          /\ cache' = IF caching
                      THEN (CacheFile(cache_key, "text") :> WriteText(lyrics)) @@ cache
                      ELSE cache
          /\ calls' = Append(calls, Call("lyrics", <<prompt, Model>>, caching,
                                         TRUE, TRUE, lyrics))
    /\ UNCHANGED files
    /\ StageUnchanged

\* generate_lyrics calling the model, which raises: "Failed to generate lyrics"
GenerateLyricsRaises(prompt, caching) ==
    /\ CallsLeft
    /\ ~(caching /\ UsableText(GetCachedText(cache,
                                   CacheKey("lyrics", <<prompt, Model>>))))
    /\ calls' = Append(calls, Call("lyrics", <<prompt, Model>>, caching,
                                   TRUE, FALSE, <<>>))
    /\ UNCHANGED <<cache, files>>
    /\ StageUnchanged

\* generate_music(lyrics, style_prompt, output_path, use_cache) copying the
\* cached file to output_path and reading its duration
GenerateMusicCached(caching) ==
    /\ CallsLeft
    /\ caching
    /\ LET cache_file == CacheFile(CacheKey("music", <<SongLyrics, Style>>), "mp3") IN
        /\ Exists(cache, cache_file)
        /\ files' = (SongPath :> cache[cache_file]) @@ files
        /\ calls' = Append(calls, Call("music", <<SongLyrics, Style>>, caching,
                                       FALSE, TRUE,
                                       <<SongPath, cache[cache_file].duration>>))
    /\ UNCHANGED cache
    /\ StageUnchanged

\* generate_music calling replicate, which returns `output`
GenerateMusicRemote(caching, output) ==
    /\ CallsLeft
    /\ LET cache_file == CacheFile(CacheKey("music", <<SongLyrics, Style>>), "mp3") IN
        /\ ~(caching /\ Exists(cache, cache_file))
        /\ files' = (SongPath :> output) @@ files
        /\ cache' = IF caching THEN (cache_file :> output) @@ cache ELSE cache
        /\ calls' = Append(calls, Call("music", <<SongLyrics, Style>>, caching,
                                       TRUE, TRUE, <<SongPath, output.duration>>))
    /\ StageUnchanged

\* generate_music calling replicate, which raises: "Failed to generate music"
GenerateMusicRaises(caching) ==
    /\ CallsLeft
    /\ ~(caching /\ Exists(cache,
            CacheFile(CacheKey("music", <<SongLyrics, Style>>), "mp3")))
    /\ calls' = Append(calls, Call("music", <<SongLyrics, Style>>, caching,
                                   TRUE, FALSE, <<>>))
    /\ UNCHANGED <<cache, files>>
    /\ StageUnchanged

\* hashlib.md5(f.read()).hexdigest() of the audio file: the digest stands
\* for the content
FileHash(content) == content

\* transcribe_audio(audio_path, use_cache) returning the cached dict
TranscribeAudioCached(caching) ==
    /\ CallsLeft
    /\ caching
    /\ SongPath \in DOMAIN files
    /\ LET cache_file == CacheFile(CacheKey("transcription",
                                            <<FileHash(files[SongPath])>>), "json")
       IN /\ Exists(cache, cache_file)
          /\ TruthyDict(JsonLoad(cache[cache_file]))
          /\ calls' = Append(calls, Call("transcription", <<files[SongPath]>>,
                                         caching, FALSE, TRUE,
                                         JsonLoad(cache[cache_file])))
    /\ UNCHANGED <<cache, files>>
    /\ StageUnchanged

\* transcribe_audio calling replicate, which returns `output`
TranscribeAudioRemote(caching, output) ==
    /\ CallsLeft
    /\ SongPath \in DOMAIN files
    /\ LET cache_file == CacheFile(CacheKey("transcription",
                                            <<FileHash(files[SongPath])>>), "json")
       IN /\ ~(/\ caching
               /\ Exists(cache, cache_file)
               /\ TruthyDict(JsonLoad(cache[cache_file])))
          /\ cache' = IF caching THEN (cache_file :> JsonDump(output)) @@ cache
                      ELSE cache
          /\ calls' = Append(calls, Call("transcription", <<files[SongPath]>>,
                                         caching, TRUE, TRUE, output))
    /\ UNCHANGED files
    /\ StageUnchanged

\* transcribe_audio calling replicate, which raises: "Failed to transcribe audio"
TranscribeAudioRaises(caching) ==
    /\ CallsLeft
    /\ SongPath \in DOMAIN files
    /\ LET cache_file == CacheFile(CacheKey("transcription",
                                            <<FileHash(files[SongPath])>>), "json")
       IN ~(/\ caching
            /\ Exists(cache, cache_file)
            /\ TruthyDict(JsonLoad(cache[cache_file])))
    /\ calls' = Append(calls, Call("transcription", <<files[SongPath]>>,
                                   caching, TRUE, FALSE, <<>>))
    /\ UNCHANGED <<cache, files>>
    /\ StageUnchanged

\* transcribe_audio of a path that holds no file: open(audio_path, "rb")
\* raises before replicate is called
TranscribeAudioNoFile(caching) ==
    /\ CallsLeft
    /\ SongPath \notin DOMAIN files
    /\ calls' = Append(calls, Call("transcription", <<SongPath>>, caching,
                                   FALSE, FALSE, <<>>))
    /\ UNCHANGED <<cache, files>>
    /\ StageUnchanged

\* clear_cache(): shutil.rmtree(CACHE_DIR), then the directory is made again
ClearCache ==
    /\ CallsLeft
    /\ cache' = <<>>
    /\ calls' = Append(calls, Call("clear_cache", <<>>, FALSE, FALSE, TRUE, <<>>))
    /\ UNCHANGED files
    /\ StageUnchanged

StageNext ==
    \/ \E prompt \in LyricsPrompts, caching \in BOOLEAN :
        GenerateLyricsCached(prompt, caching)
    \/ \E prompt \in LyricsPrompts, caching \in BOOLEAN, content \in LlmContents :
        GenerateLyricsRemote(prompt, caching, content)
    \/ \E prompt \in LyricsPrompts, caching \in BOOLEAN :
        GenerateLyricsRaises(prompt, caching)
    \/ \E caching \in BOOLEAN : GenerateMusicCached(caching)
    \/ \E caching \in BOOLEAN, output \in MusicOutputs :
        GenerateMusicRemote(caching, output)
    \/ \E caching \in BOOLEAN : GenerateMusicRaises(caching)
    \/ \E caching \in BOOLEAN : TranscribeAudioCached(caching)
    \/ \E caching \in BOOLEAN, output \in TranscriptionOutputs :
        TranscribeAudioRemote(caching, output)
    \/ \E caching \in BOOLEAN : TranscribeAudioRaises(caching)
    \/ \E caching \in BOOLEAN : TranscribeAudioNoFile(caching)
    \/ ClearCache

SpecStages == StageInit /\ [][StageNext]_vars

-----------------------------------------------------------------------------
(* Properties of the cached stages *)

\* calls a < b of one stage with identical parameters, both with caching,
\* the first of them successful, and no clear_cache between them
SameCallTwice(a, b) ==
    /\ a < b
    /\ calls[a].stage = calls[b].stage
    /\ calls[a].stage # "clear_cache"
    /\ calls[a].args = calls[b].args
    /\ calls[a].use_cache /\ calls[b].use_cache
    /\ calls[a].ok
    /\ \A c \in (a + 1)..(b - 1) : calls[c].stage # "clear_cache"

\* C9 (as claimed): with caching, of two calls of a cached stage with
\* identical parameters, the first succeeding, the second performs no remote
\* call and returns a result equal to the first's, whatever the remote
\* service returned.
C9_SecondCallCached ==
    \A a, b \in 1..Len(calls) :
        SameCallTwice(a, b) =>
            /\ ~calls[b].remote
            /\ calls[b].result = calls[a].result

\* call a wrote a cache entry that no clear_cache has removed since
WroteEntry(a) ==
    /\ calls[a].use_cache /\ calls[a].remote /\ calls[a].ok
    /\ \A c \in (a + 1)..Len(calls) : calls[c].stage # "clear_cache"

\* what the entry call a wrote reads as now; NoCachedText when it is absent
ReadEntry(a) ==
    LET cache_key == CacheKey(calls[a].stage, calls[a].args) IN
    CASE calls[a].stage = "lyrics" -> GetCachedText(cache, cache_key)
      [] calls[a].stage = "music" ->
            IF Exists(cache, CacheFile(cache_key, "mp3"))
            THEN <<SongPath, cache[CacheFile(cache_key, "mp3")].duration>>
            ELSE NoCachedText
      [] OTHER ->
            IF Exists(cache, CacheFile(cache_key, "json"))
            THEN JsonLoad(cache[CacheFile(cache_key, "json")])
            ELSE NoCachedText

\* C22 (as claimed): a cache entry, once written, reads as the payload that
\* was written until clear_cache runs, and right after clear_cache the cache
\* holds no entry at all.
C22_EntriesStayUntilCleared ==
    /\ \A a \in 1..Len(calls) : WroteEntry(a) => ReadEntry(a) = calls[a].result
    /\ (calls # <<>> /\ calls[Len(calls)].stage = "clear_cache") => cache = <<>>

-----------------------------------------------------------------------------
(* Properties of generate_all_videos *)

\* the jobs whose worker returned an error
Failed == { i \in JobIds : job[i].state = "finished" /\ job[i].error # NoneStr }

\* the failed job that finished before every other failed job
FirstFailed ==
    LET at == { k \in 1..Len(completion_order) : completion_order[k] \in Failed }
    IN completion_order[CHOOSE k \in at : \A m \in at : k <= m]

\* C5: when generate_all_videos returns, the list has one path per segment
\* and position i holds the path the job of segment i produced, whatever the
\* order in which the jobs completed.
C5_PathsByIndex ==
    gen_pc = "returned" =>
        /\ Len(video_paths) = Len(gen_segments)
        /\ \A i \in JobIds :
            /\ video_paths[i + 1] = job[i].path
            /\ video_paths[i + 1] = OutputPath(OutputDir, i)

\* two jobs completed in reverse index order, were collected in that order,
\* and the call returned
C5_Witness ==
    /\ gen_pc = "returned"
    /\ completion_order = <<1, 0>>
    /\ observed = <<1, 0>>
    /\ video_paths = <<"videos/segment_000.mp4", "videos/segment_001.mp4">>

\* C6: if any job of the batch ended with an error, generate_all_videos
\* raises and returns no path list; it returns a list only when every job
\* succeeded.
C6_AllOrNothing ==
    /\ (gen_pc \in {"returned", "raised"} /\ Failed # {}) =>
        /\ gen_pc = "raised"
        /\ gen_error # NoneStr
        /\ video_paths = <<>>
    /\ gen_pc = "returned" =>
        \A i \in JobIds : /\ job[i].state = "finished"
                          /\ job[i].error = NoneStr
                          /\ job[i].path # NoneStr

\* the call raised although a job had succeeded and its path was collected:
\* the other job failed with an exception that carried no message
C6_Witness ==
    /\ gen_pc = "raised"
    /\ NumJobs = 2
    /\ job[0].path # NoneStr
    /\ 0 \in DOMAIN video_results
    /\ job[1].error = "Failed to generate video segment 1: "
    /\ video_paths = <<>>

\* C10 (as claimed): the error raised is the error of the first failed job in
\* completion order.
C10_FirstInCompletionOrder ==
    gen_pc \in {"shutdown", "raised"} =>
        gen_error = BatchError(FirstFailed, job[FirstFailed].error)

\* C10 (amended): the error raised is the error of the first failed job that
\* as_completed yields to the collector: every job yielded before it had
\* succeeded and none is yielded after it.  It is the first failed job in
\* completion order unless that job had already finished when as_completed
\* was called, and then the job whose error is raised had finished by then too.
C10_FirstObserved ==
    gen_pc \in {"shutdown", "raised"} =>
        LET i == observed[Len(observed)] IN
        /\ gen_error = BatchError(i, job[i].error)
        /\ i \in Failed
        /\ \A k \in 1..(Len(observed) - 1) : observed[k] \notin Failed
        /\ \/ i = FirstFailed
           \/ {i, FirstFailed} \subseteq snapshot

\* two jobs failed after as_completed was called, and the error raised is
\* that of the one that failed first, which is not the one of lower index
C10_Witness ==
    /\ gen_pc = "raised"
    /\ snapshot = {}
    /\ Failed = {0, 1}
    /\ completion_order = <<1, 0>>
    /\ observed = <<1>>
    /\ gen_error = BatchError(1, job[1].error)

C19_ExhaustionFailsBatch ==
    \A i \in JobIds :
        (job[i].state = "finished" /\ job[i].exhausted) =>
            /\ job[i].path = NoneStr
            /\ job[i].error # NoneStr /\ job[i].error # ""
            /\ gen_pc # "returned"
            /\ video_paths = <<>>
            /\ i \notin DOMAIN video_results
            /\ InSeq(i, observed) =>
                /\ gen_pc \in {"shutdown", "raised"}
                /\ gen_error = BatchError(i, job[i].error)

\* the batch failed with the error of a job whose downloads all failed
C19_Witness ==
    /\ gen_pc = "raised"
    /\ \E i \in JobIds :
        /\ job[i].state = "finished"
        /\ job[i].exhausted
        /\ job[i].error = SegmentError(i, "Failed to download video after 3 attempts: ")
        /\ gen_error = BatchError(i, job[i].error)

\* C25: when a job fails, the exception leaves generate_all_videos only
\* after every job of the batch has run to its end: no worker is running
\* and no job is left in the queue.
C25_RaisesAfterEveryJobEnded ==
    gen_pc = "raised" =>
        \A i \in JobIds :
            /\ job[i].state \notin { "queued", "running" }
            /\ job[i].path # NoneStr \/ job[i].error # NoneStr

\* ... an exception has left the call, and a job ended after the failure was
\* seen: as_completed had not found it finished and was not told of its end
C25_Witness ==
    /\ gen_pc = "raised"
    /\ \E i \in JobIds :
        /\ job[i].state = "finished"
        /\ i \notin snapshot
        /\ i \notin Range(finished_futures)

-----------------------------------------------------------------------------
(* Termination: a call of generate_video_segment, or a call of             *)
(* generate_all_videos, in which every remote call returns or raises, every *)
(* sleep ends and every pool thread keeps running                           *)

\* caching is on, the case with the most steps; a job runs the same steps
\* whatever its index
LiveInit ==
    \/ SegInit /\ seg_index = 0 /\ use_cache
    \/ GenInit /\ use_cache

LiveNext == SegNext \/ GenNext

SpecLive == LiveInit /\ [][LiveNext]_vars /\ WF_vars(LiveNext)

\* C24: provided every remote call returns or raises, a segment job makes at
\* most 3 submissions and at most 3 downloads, polls within a bounded time
\* per attempt (so a bounded number of times, one poll taking 10 s or more)
\* and eventually ends with a path or an error; and generate_all_videos
\* eventually returns its path list or raises.
C24_Terminates ==
    /\ [](/\ submits <= MaxRetries
          /\ downloads <= DownloadRetries
          /\ \E latency \in Latencies :
                elapsed <= MaxPollTime + PollInterval + latency)
    /\ (seg_pc = "start") ~> (seg_pc \in { "returned", "raised" })
    /\ (gen_pc = "submit") ~> (gen_pc \in { "returned", "raised" })

\* a job ended with an error after three submissions, the third of which was
\* polled to its end, and three downloads
C24_Witness ==
    /\ seg_pc = "raised"
    /\ submits = MaxRetries
    /\ Len(completed_at) = 1
    /\ completed_at[1] > 0
    /\ downloads = DownloadRetries

-----------------------------------------------------------------------------
(* utils/video_generator.py: two calls of generate_all_videos running at   *)
(* the same time with the same output_dir, as two sessions of app.py make  *)
(* them; each worker job in the steps that touch the disk                  *)

\* the two calls
Batches == { "a", "b" }

\* the lyrics of the two songs
BatchLyrics == { "la", "oh" }

\* video_segments of a call: the segments of one song
BatchSegmentLists ==
    { [i \in 1..n |-> l] : n \in 1..MaxSegments, l \in BatchLyrics }

\* the worker jobs: <<call, segment index>>
Workers == DOMAIN worker

\* the media the remote generation of a worker job yields
WorkerMedia(w) == <<"generated for segment", w[2], "of call", w[1]>>

\* output_path, veo3_prompt and the cache file of a worker job
WorkerOutputPath(w) == OutputPath(OutputDir, w[2])
WorkerPrompt(w) == Veo3Prompt(Genre, batch_segments[w[1]][w[2] + 1])
WorkerCacheFile(w) == CacheFile(VideoCacheKey(WorkerPrompt(w), w[2]), "mp4")

\* the jobs a pool thread is running
Active(w) == worker[w].pc \in { "generating", "saving" }

PoolInit ==
    /\ MapIdle
    /\ song_duration = 0
    /\ StitchIdle
    /\ StagesIdle
    /\ SegIdle
    /\ AppIdle
    /\ gen_segments = <<>>
    /\ job = <<>>
    /\ submitted = 0
    /\ snapshot = {}
    /\ finished_futures = <<>>
    /\ video_results = <<>>
    /\ observed = <<>>
    /\ completion_order = <<>>
    /\ video_paths = <<>>
    /\ gen_error = NoneStr
    /\ gen_pc = "idle"
    /\ use_cache \in BOOLEAN
    /\ max_workers \in 1..MaxWorkers
    /\ cache = <<>>
    /\ files = <<>>
    /\ batch_segments \in [Batches -> BatchSegmentLists]
    /\ worker = [w \in { v \in Batches \X (0..(MaxSegments - 1)) :
                             v[2] < Len(batch_segments[v[1]]) }
                 |-> [pc |-> "queued", downloaded |-> NoneStr, stored |-> NoneStr]]

PoolOthersUnchanged ==
    /\ UNCHANGED <<gen_segments, use_cache, max_workers, job, submitted, snapshot,
                   finished_futures, video_results, observed, completion_order,
                   video_paths, gen_error, gen_pc, batch_segments>>
    /\ UNCHANGED <<mapVars, stitchVars, stageVars, segVars, appVars>>

\* a pool thread of the call takes the job: the queue of a call is first in,
\* first out and its pool has at most max_workers threads
WorkerTakes(w) ==
    /\ worker[w].pc = "queued"
    /\ \A v \in Workers : (v[1] = w[1] /\ v[2] < w[2]) => worker[v].pc # "queued"
    /\ Cardinality({ v \in Workers : v[1] = w[1] /\ Active(v) }) < max_workers

\* on a cache hit the cached file is copied to output_path, which is returned
WorkerCacheHit(w) ==
    /\ WorkerTakes(w)
    /\ use_cache /\ Exists(cache, WorkerCacheFile(w))
    /\ files' = (WorkerOutputPath(w) :> cache[WorkerCacheFile(w)]) @@ files
    /\ worker' = [worker EXCEPT ![w].pc = "returned"]
    /\ UNCHANGED cache
    /\ PoolOthersUnchanged

\* on a miss, or without caching, the try block is entered
WorkerCacheMiss(w) ==
    /\ WorkerTakes(w)
    /\ ~(use_cache /\ Exists(cache, WorkerCacheFile(w)))
    /\ worker' = [worker EXCEPT ![w].pc = "generating"]
    /\ UNCHANGED <<cache, files>>
    /\ PoolOthersUnchanged

\* the generation and the download succeed: base_video.video.save(output_path)
WorkerDownloads(w) ==
    /\ worker[w].pc = "generating"
    /\ files' = (WorkerOutputPath(w) :> WorkerMedia(w)) @@ files
    /\ worker' = [worker EXCEPT ![w].pc = IF use_cache THEN "saving" ELSE "returned",
                                ![w].downloaded = WorkerMedia(w)]
    /\ UNCHANGED cache
    /\ PoolOthersUnchanged

\* save_file_to_cache(output_path, cache_key, "mp4"): shutil.copy copies the
\* file output_path names now to the cache file; output_path is returned
WorkerSavesToCache(w) ==
    /\ worker[w].pc = "saving"
    /\ cache' = (WorkerCacheFile(w) :> files[WorkerOutputPath(w)]) @@ cache
    /\ worker' = [worker EXCEPT ![w].pc = "returned",
                                ![w].stored = files[WorkerOutputPath(w)]]
    /\ UNCHANGED files
    /\ PoolOthersUnchanged

\* the generation or the download fails for good: the worker returns an error
WorkerRaises(w) ==
    /\ worker[w].pc = "generating"
    /\ worker' = [worker EXCEPT ![w].pc = "raised"]
    /\ UNCHANGED <<cache, files>>
    /\ PoolOthersUnchanged

PoolNext ==
    \/ \E w \in Workers : WorkerCacheHit(w)
    \/ \E w \in Workers : WorkerCacheMiss(w)
    \/ \E w \in Workers : WorkerDownloads(w)
    \/ \E w \in Workers : WorkerSavesToCache(w)
    \/ \E w \in Workers : WorkerRaises(w)

SpecPool == PoolInit /\ [][PoolNext]_vars

-----------------------------------------------------------------------------
(* Properties of calls of generate_all_videos running at the same time *)

\* C23 (as claimed): two segment jobs that run at the same time, of one call
\* or of two calls with the same output directory, never write the same
\* output file or the same cache entry, and the blob a job stores in the
\* cache under its key is the media the job itself downloaded.
C23_JobsShareNothing ==
    /\ \A v, w \in Workers :
        (v # w /\ Active(v) /\ Active(w)) =>
            /\ WorkerOutputPath(v) # WorkerOutputPath(w)
            /\ WorkerCacheFile(v) # WorkerCacheFile(w)
    /\ \A w \in Workers :
        worker[w].stored # NoneStr => worker[w].stored = worker[w].downloaded

-----------------------------------------------------------------------------
(* app.py: the run of the pipeline from the mapper on (steps 3 to 5)       *)

\* max_workers=4 of the generate_all_videos call
AppMaxWorkers == 4

\* the string of a text kept as a sequence of characters
RECURSIVE AsString(_)
AsString(chars) == IF chars = <<>> THEN "" ELSE Head(chars) \o AsString(Tail(chars))

\* what transcribe_audio returned: no chunks, or one chunk in the first window
AppTranscriptions ==
    { [text |-> <<"o", "h">>, chunks |-> <<>>],
      [text |-> <<"o", "h">>,
       chunks |-> <<[text |-> <<" ", "l", "a">>, timestamp |-> <<0, Sec(2)>>]>>] }

\* the duration generate_music returned: negative, zero, one window, and as
\* many windows as the batch may have segments
AppDurations == { -1, 0, Sec(5), Sec(SegmentSeconds) * MaxSegments - 1 }

\* VideoFileClip(path).duration of a generated segment
AppClipDurations == { Sec(5), Sec(SegmentSeconds) }

AppInit ==
    /\ transcription \in AppTranscriptions
    /\ song_duration \in AppDurations
    /\ overlapping = <<>>
    /\ video_segments = <<>>
    /\ map_pc = "call"
    /\ StitchIdle
    /\ StagesIdle
    /\ PoolIdle
    /\ SegIdle
    /\ gen_segments = <<>>
    /\ use_cache \in BOOLEAN
    /\ max_workers = AppMaxWorkers
    /\ cache \in InitialCaches
    /\ files = <<>>
    /\ job = <<>>
    /\ submitted = 0
    /\ snapshot = {}
    /\ finished_futures = <<>>
    /\ video_results = <<>>
    /\ observed = <<>>
    /\ completion_order = <<>>
    /\ video_paths = <<>>
    /\ gen_error = NoneStr
    /\ gen_pc = "idle"
    /\ app_pc = "map"
    /\ app_error = NoneStr

\* video_paths = generate_all_videos(video_segments=video_segments, ...) is
\* called once the mapper has returned, whatever the list it returned
AppCallsGenerate == map_pc = "returned"

AppCallGenerate ==
    /\ app_pc = "map"
    /\ AppCallsGenerate
    /\ gen_segments' = [k \in 1..Len(video_segments) |-> AsString(video_segments[k][3])]
    /\ job' = [i \in 0..(Len(video_segments) - 1) |->
                [state |-> "new", path |-> NoneStr, error |-> NoneStr, exhausted |-> FALSE]]
    /\ gen_pc' = "submit"
    /\ app_pc' = "generating"
    /\ UNCHANGED <<use_cache, max_workers, cache, files, submitted, snapshot,
                   finished_futures, video_results, observed, completion_order,
                   video_paths, gen_error>>
    /\ UNCHANGED <<mapVars, stitchVars, stageVars, poolVars, segVars, app_error>>

\* the exception of generate_all_videos is shown and raised again; the
\* handler of the run shows it: no later step runs
AppGenerateRaised ==
    /\ app_pc = "generating"
    /\ gen_pc = "raised"
    /\ app_error' = "An error occurred: " \o gen_error
    /\ app_pc' = "error"
    /\ UNCHANGED <<mapVars, stitchVars, genVars, stageVars, poolVars, segVars>>

\* generate_all_videos returned its list
GenerateEnded == gen_pc \in {"returned", "raised"}
GenerateReturned == gen_pc = "returned"

\* stitch_videos(video_paths, audio_path, song_duration, output_path): the
\* audio is the file whose duration song_duration is
AppCallStitch ==
    /\ app_pc = "generating"
    /\ GenerateReturned
    /\ video_clips' \in [1..Len(video_paths) -> AppClipDurations]
    /\ audio_duration' = song_duration
    /\ stitch_pc' = "call"
    /\ app_pc' = "stitching"
    /\ UNCHANGED <<clips, final_video, app_error>>
    /\ UNCHANGED <<mapVars, genVars, stageVars, poolVars, segVars>>

\* the exception of stitch_videos reaches the handler of the run
AppStitchRaised ==
    /\ app_pc = "stitching"
    /\ stitch_pc = "raised"
    /\ app_error' = "An error occurred: Failed to stitch videos"
    /\ app_pc' = "error"
    /\ UNCHANGED <<mapVars, stitchVars, genVars, stageVars, poolVars, segVars>>

\* the final video is shown
AppDone ==
    /\ app_pc = "stitching"
    /\ stitch_pc = "returned"
    /\ app_pc' = "done"
    /\ UNCHANGED app_error
    /\ UNCHANGED <<mapVars, stitchVars, genVars, stageVars, poolVars, segVars>>

AppNext ==
    \/ MapToVideoSegments
    \/ AppCallGenerate
    \/ Submit
    \/ AsCompleted
    \/ \E i \in JobIds : JobBeginHit(i)
    \/ \E i \in JobIds : JobBeginMiss(i)
    \/ \E i \in JobIds : JobBeginRaises(i)
    \/ \E i \in JobIds : JobRun(i)
    \/ \E i \in JobIds : CollectPath(i)
    \/ \E i \in JobIds : CollectError(i)
    \/ Raise
    \/ Return
    \/ AppGenerateRaised
    \/ AppCallStitch
    \/ StitchVideos
    \/ AppStitchRaised
    \/ AppDone

SpecApp == AppInit /\ [][AppNext]_vars

-----------------------------------------------------------------------------
(* Properties of the run of app.py *)

\* C12 (as claimed): when song_duration <= 0 and the mapper returned no
\* segment, the run is reported as an error before the generator is invoked:
\* neither generate_all_videos nor stitch_videos is called with the empty list.
C12_EmptyRunStopsEarly ==
    (song_duration <= 0 /\ map_pc = "returned") =>
        /\ video_segments = <<>>
        /\ gen_pc = "idle"
        /\ stitch_pc = "idle"

\* C14: stitch_videos is invoked only after generate_all_videos has returned
\* a path list with the path of every segment; once a segment job of the
\* batch has failed, no assembly is started and no final video is written.
C14_StitchAfterCompleteBatch ==
    /\ stitch_pc # "idle" =>
        /\ gen_pc = "returned"
        /\ Len(video_paths) = Len(video_segments)
        /\ \A k \in 1..Len(video_paths) :
            video_paths[k] = OutputPath(OutputDir, k - 1)
    /\ (Failed # {} \/ gen_pc \in {"shutdown", "raised"}) =>
        /\ stitch_pc = "idle"
        /\ final_video = None
        /\ app_pc \in {"generating", "error"}

\* a batch with a failed segment ended the run with the error shown
C14_Witness ==
    /\ app_pc = "error"
    /\ Failed # {}
    /\ gen_pc = "raised"
    /\ stitch_pc = "idle"


\* every clip handed to stitch_videos lasts the window width
EveryClipAWindowLong ==
    \A k \in 1..Len(video_clips) : video_clips[k] = Sec(SegmentSeconds)

\* C27: for a song duration > 0, when generate_all_videos has succeeded and
\* every generated clip lasts 8 s, the clips handed to stitch_videos sum to
\* at least the song duration: the assembler does not fail for want of clips
\* and the durations it retains sum to exactly the song duration.
C27_ClipsCoverTheSong ==
    (song_duration > 0 /\ stitch_pc # "idle" /\ EveryClipAWindowLong) =>
        /\ Len(video_clips) = Len(video_segments)
        /\ Sum(video_clips) >= song_duration
        /\ stitch_pc # "raised"
        /\ stitch_pc = "returned" => Sum(clips) = song_duration

\* a song of more than one window that ends inside a window was assembled
\* from clips of 8 s, the last of them trimmed
C27_Witness ==
    /\ stitch_pc = "returned"
    /\ song_duration > Sec(SegmentSeconds)
    /\ song_duration % Sec(SegmentSeconds) # 0
    /\ EveryClipAWindowLong
    /\ Len(clips) = Len(video_clips)
    /\ clips[Len(clips)] < Sec(SegmentSeconds)
    /\ Sum(clips) = song_duration

=============================================================================
